---- MODULE Spec2Model ----
(***************************************************************************)
(* Billing state reconciliation of wrapper-saas: the Stripe webhook        *)
(* handler (app/api/stripe/webhook/route.ts), its helpers                  *)
(* (lib/webhook-helpers, reproduced in IMPLEMENTATION_REPORT.md) and the   *)
(* checkout initiator (app/api/checkout/route.ts), over one subscriber's   *)
(* profile row, the webhook_events ledger and the webhook_alerts table.    *)
(***************************************************************************)
EXTENDS Integers, Sequences, FiniteSets, TLC

VARIABLES
    profile,         \* the subscriber's row of public.profiles
    webhook_events,  \* event_id -> number of rows of public.webhook_events,
                     \* for the event ids that can still be delivered
    now,             \* wall clock, in milliseconds
    request,         \* the request whose handling has just completed, with the
                     \* profile it found (none once its response is returned)
    response,        \* HTTP status answered to that request
    alerts,          \* rows inserted into public.webhook_alerts by that request
    stripe_calls,    \* Stripe API calls issued by that request
    inflight,        \* requests being handled at the same time: where each
                     \* one is in its handler and what it holds
    stripe           \* Stripe's side of the subscriber: the hosted session,
                     \* the subscription and the events it has yet to deliver

vars == <<profile, webhook_events, now, request, response, alerts, stripe_calls,
          inflight, stripe>>

----------------------------------------------------------------------------
\* Bounds of the model
MaxTicks  == 1      \* clock ticks explored
TickMs    == 60000  \* length of one clock tick in milliseconds
MaxUsage  == 1      \* largest plan_used the collaborator drives the counter to

\* Program constants
CooldownMs == 60000 \* checkout rate limit window

NULL   == "null"
NoTime == 0 - 1      \* a null timestamp

\* Event ids are unique to an event. Only the latest event is delivered
\* again, so one id, standing for "the id of the latest event", is in play.
EventIds == {"evt_latest"}
\* period ends the processor reports: one the clock passes, one it can
\* reach, one it cannot
PeriodEnds == {TickMs \div 2, TickMs, (MaxTicks + 1) * TickMs}

\* The processor's objects: the subscriber u1 pays as customer cus_1 with
\* subscription sub_1. An event finds no profile while the profile does not
\* hold these references yet.
UserId == "u1"

----------------------------------------------------------------------------
\* public.plans: immutable reference data
PlanIds == {"basic", "pro", "agency"}

plans ==
    [ basic  |-> [plan_id |-> "basic",  name |-> "Basic",  monthly_limit |-> 50,
                  price_usd |-> 19, stripe_price_id_pln |-> "price_basic_pln",
                  stripe_price_id_usd |-> "price_basic_usd"],
      pro    |-> [plan_id |-> "pro",    name |-> "Pro",    monthly_limit |-> 200,
                  price_usd |-> 49, stripe_price_id_pln |-> NULL,
                  stripe_price_id_usd |-> "price_pro_usd"],
      agency |-> [plan_id |-> "agency", name |-> "Agency", monthly_limit |-> 200,
                  price_usd |-> 99, stripe_price_id_pln |-> NULL,
                  stripe_price_id_usd |-> "price_agency_usd"] ]

\* price ids seen in events: one per plan, and one no plan carries
PriceIds == {"price_basic_pln", "price_pro_usd", "price_agency_usd", "price_unknown"}

\* variant: only the PLN price column is searched
PlanByPrice_PlnOnly(priceId) ==
    LET hit == {id \in PlanIds : plans[id].stripe_price_id_pln = priceId}
    IN  IF Cardinality(hit) = 1 THEN CHOOSE id \in hit : TRUE ELSE NULL

\* variant: a price no plan carries falls back to the cheapest plan
PlanByPrice_Fallback(priceId) ==
    LET hit == {id \in PlanIds : plans[id].stripe_price_id_pln = priceId
                                 \/ plans[id].stripe_price_id_usd = priceId}
    IN  IF Cardinality(hit) = 1 THEN CHOOSE id \in hit : TRUE ELSE "basic"

\* .or(stripe_price_id_pln.eq.X, stripe_price_id_usd.eq.X).single()
PlanByPrice(priceId) ==
    LET hit == {id \in PlanIds : plans[id].stripe_price_id_pln = priceId
                                 \/ plans[id].stripe_price_id_usd = priceId}
    IN  IF Cardinality(hit) = 1 THEN CHOOSE id \in hit : TRUE ELSE NULL

\* .from('plans').select('monthly_limit').eq('plan_id', id).single()
PlanById(id) == IF id \in PlanIds THEN id ELSE NULL

----------------------------------------------------------------------------
\* Subscription statuses
ValidStatuses == {"active", "trialing", "past_due", "canceled", "unpaid",
                  "incomplete", "incomplete_expired", "paused"}

isValidSubscriptionStatus(status) == status \in ValidStatuses

EventStatuses == {"active", "trialing", "past_due"}

\* variant: a trial does not grant access
StatusGrantsAccess_ActiveOnly(status) == status = "active"

StatusGrantsAccess(status) == status = "active" \/ status = "trialing"

----------------------------------------------------------------------------
\* The profile row as created at signup (column defaults of migration 003)
NewProfile ==
    [ id                     |-> UserId,
      plan_id                |-> NULL,
      active                 |-> FALSE,
      cancel_at_period_end   |-> FALSE,
      pending_plan_change    |-> FALSE,
      target_plan_id         |-> NULL,
      subscription_status    |-> "inactive",
      stripe_customer_id     |-> NULL,
      stripe_subscription_id |-> NULL,
      current_period_end     |-> NoTime,
      plan_used              |-> 0,
      last_checkout_at       |-> NoTime ]

\* supabase.from('profiles').update(updates).eq('id', userId): a partial
\* write of the listed columns only; no row matches another id
ApplyUpdate(p, userId, updates) ==
    IF userId = p.id
    THEN [f \in DOMAIN p |-> IF f \in DOMAIN updates THEN updates[f] ELSE p[f]]
    ELSE p

NoUpdate == [x \in {} |-> NULL]

Alert(type, severity) == [type |-> type, severity |-> severity]

\* outcome of the event-type switch: the profile write it issues (if any),
\* the alerts it logs, whether an exception escaped to the catch block, and
\* which Stripe retrieve calls it made
Outcome(uid, upd, al, thrown, asked) ==
    [userId |-> uid, updates |-> upd, alerts |-> al, thrown |-> thrown, asked |-> asked]

Skip(al) == Outcome(NULL, NoUpdate, al, FALSE, {})

----------------------------------------------------------------------------
\* Webhook events. Every event carries every field; a field its type does
\* not have is NULL / NoTime / FALSE.
Event(type, userId, customer, subscription, price, status, cape, cpe, npa) ==
    [ type                 |-> type,
      userId               |-> userId,        \* session.metadata.userId
      customer             |-> customer,
      subscription         |-> subscription,
      price                |-> price,         \* items.data[0].price.id
      status               |-> status,
      cancel_at_period_end |-> cape,
      current_period_end   |-> cpe,           \* seconds * 1000
      next_payment_attempt |-> npa ]

\* sessions of u1 with and without a subscription, and one without metadata
CheckoutCompletedEvents ==
    { Event("checkout.session.completed", q[1], "cus_1", q[2], NULL, NULL, FALSE, NoTime, NoTime) :
        q \in { <<UserId, "sub_1">>, <<UserId, NULL>>, <<NULL, "sub_1">> } }

\* the subscription in every shape, and one event without a price
SubscriptionCreatedEvents ==
    { Event("customer.subscription.created", NULL, "cus_1", "sub_1", q[1], q[2], FALSE, NoTime, NoTime) :
        q \in PriceIds \X EventStatuses }
    \cup { Event("customer.subscription.created", NULL, "cus_1", "sub_1", NULL, "active", FALSE, NoTime, NoTime) }

SubscriptionUpdatedEvents ==
    { Event("customer.subscription.updated", NULL, NULL, "sub_1", q[1], q[2], q[3], NoTime, NoTime) :
        q \in PriceIds \X EventStatuses \X BOOLEAN }
    \cup { Event("customer.subscription.updated", NULL, NULL, "sub_1", NULL, "active", FALSE, NoTime, NoTime) }

SubscriptionDeletedEvents ==
    { Event("customer.subscription.deleted", NULL, NULL, "sub_1", NULL, "canceled", FALSE, t, NoTime) :
        t \in PeriodEnds \cup {NoTime} }

InvoiceSucceededEvents ==
    { Event("invoice.payment_succeeded", NULL, NULL, s, NULL, NULL, FALSE, NoTime, NoTime) :
        s \in {"sub_1", NULL} }

InvoiceFailedEvents ==
    { Event("invoice.payment_failed", NULL, NULL, "sub_1", NULL, NULL, FALSE, NoTime, t) :
        t \in {NoTime, (MaxTicks + 1) * TickMs} }
    \cup { Event("invoice.payment_failed", NULL, NULL, NULL, NULL, NULL, FALSE, NoTime, NoTime) }

OtherEvents ==
    { Event("customer.created", NULL, "cus_1", NULL, NULL, NULL, FALSE, NoTime, NoTime) }

Events == CheckoutCompletedEvents \cup SubscriptionCreatedEvents
          \cup SubscriptionUpdatedEvents \cup SubscriptionDeletedEvents
          \cup InvoiceSucceededEvents \cup InvoiceFailedEvents \cup OtherEvents

\* What Stripe answers to the retrieve calls made while an event is handled:
\*   session_price: line_items.data[0].price.id of the expanded session
\*                  (NULL: no line item; "throw": the call fails)
\*   period_end:    getCurrentPeriodEnd (NoTime: not found or call failed)
StripeAnswers ==
    [ session_price : PriceIds \cup {NULL, "throw"},
      period_end    : {(MaxTicks + 1) * TickMs, NoTime} ]

\* the retrieve calls the handler of an event type contains
AnswersFor(e) ==
    { x \in StripeAnswers :
        /\ (e.type # "checkout.session.completed" => x.session_price = NULL)
        /\ (e.type \notin {"customer.subscription.created",
                           "customer.subscription.updated",
                           "invoice.payment_succeeded"} => x.period_end = NoTime) }

\* an answer exists only for a call that was made
AnswersAsked(x, asked) ==
    /\ ("sessions.retrieve" \notin asked => x.session_price = NULL)
    /\ ("subscriptions.retrieve" \notin asked => x.period_end = NoTime)

----------------------------------------------------------------------------
\* case 'checkout.session.completed'
CheckoutSessionCompleted(p, e, x) ==
    IF e.userId = NULL
    THEN Skip(<<Alert("subscription_mismatch", "warning")>>)
    ELSE IF e.subscription = NULL
    THEN Skip(<<>>)
    ELSE IF x.session_price = "throw"
    THEN Outcome(NULL, NoUpdate, <<>>, TRUE, {"sessions.retrieve"})
    ELSE IF x.session_price = NULL
    THEN Outcome(NULL, NoUpdate, <<Alert("missing_price_id", "critical")>>, FALSE,
                 {"sessions.retrieve"})
    ELSE LET plan == PlanByPrice(x.session_price) IN
         IF plan = NULL
         THEN Outcome(e.userId,
                      [ stripe_customer_id     |-> e.customer,
                        stripe_subscription_id |-> e.subscription,
                        active                 |-> FALSE,
                        pending_plan_change    |-> FALSE ],
                      <<Alert("missing_price_id", "critical")>>, FALSE,
                      {"sessions.retrieve"})
         ELSE Outcome(e.userId,
                      [ plan_id                |-> plans[plan].plan_id,
                        active                 |-> TRUE,
                        stripe_customer_id     |-> e.customer,
                        stripe_subscription_id |-> e.subscription,
                        subscription_status    |-> "active",
                        pending_plan_change    |-> FALSE,
                        target_plan_id         |-> NULL ],
                      <<>>, FALSE, {"sessions.retrieve"})

StatusAlert(status) ==
    IF isValidSubscriptionStatus(status) THEN <<>>
    ELSE <<Alert("unknown_status", "warning")>>

\* case 'customer.subscription.created'
SubscriptionCreated(p, e, x) ==
    IF e.price = NULL
    THEN Skip(<<>>)
    ELSE IF p.stripe_customer_id # e.customer
    THEN Skip(<<Alert("subscription_mismatch", "warning")>>)
    ELSE LET plan == PlanByPrice(e.price) IN
         IF plan = NULL
         THEN Skip(<<Alert("missing_price_id", "critical")>>)
         ELSE Outcome(p.id,
                      [ plan_id                |-> plans[plan].plan_id,
                        active                 |-> StatusGrantsAccess(e.status),
                        stripe_subscription_id |-> e.subscription,
                        current_period_end     |-> x.period_end,
                        subscription_status    |-> e.status,
                        pending_plan_change    |-> FALSE,
                        target_plan_id         |-> NULL ],
                      StatusAlert(e.status), FALSE, {"subscriptions.retrieve"})

\* variant: the comparison of the limits is reversed
isDowngrade_Reversed(oldPlan, newPlan) ==
    oldPlan # NULL /\ plans[newPlan].monthly_limit > plans[oldPlan].monthly_limit

\* variant: a move to a plan with the same limit counts as a downgrade
isDowngrade_OrEqual(oldPlan, newPlan) ==
    oldPlan # NULL /\ plans[newPlan].monthly_limit <= plans[oldPlan].monthly_limit

\* variant: a downgrade is a move to a cheaper plan
isDowngrade_ByPrice(oldPlan, newPlan) ==
    oldPlan # NULL /\ plans[newPlan].price_usd < plans[oldPlan].price_usd

\* const isDowngrade = oldPlan && newPlan.monthly_limit < oldPlan.monthly_limit
isDowngrade(oldPlan, newPlan) ==
    oldPlan # NULL /\ plans[newPlan].monthly_limit < plans[oldPlan].monthly_limit

\* case 'customer.subscription.updated'
SubscriptionUpdated(p, e, x) ==
    IF e.price = NULL
    THEN Skip(<<>>)
    ELSE IF p.stripe_subscription_id # e.subscription
    THEN Skip(<<>>)
    ELSE LET newPlan == PlanByPrice(e.price) IN
         IF newPlan = NULL
         THEN Outcome(p.id,
                      [ active               |-> StatusGrantsAccess(e.status),
                        current_period_end   |-> x.period_end,
                        subscription_status  |-> e.status,
                        cancel_at_period_end |-> e.cancel_at_period_end ],
                      StatusAlert(e.status), FALSE, {"subscriptions.retrieve"})
         ELSE LET oldPlan == PlanById(p.plan_id)
                  updateData ==
                      [ plan_id              |-> plans[newPlan].plan_id,
                        active               |-> StatusGrantsAccess(e.status),
                        current_period_end   |-> x.period_end,
                        subscription_status  |-> e.status,
                        cancel_at_period_end |-> e.cancel_at_period_end,
                        pending_plan_change  |-> FALSE,
                        target_plan_id       |-> NULL ]
              IN  Outcome(p.id,
                          IF isDowngrade(oldPlan, newPlan)
                          THEN updateData @@ [plan_used |-> 0]
                          ELSE updateData,
                          StatusAlert(e.status), FALSE, {"subscriptions.retrieve"})

\* variant: a deletion never opens a grace period (the handler before the
\* grace period was introduced)
isGracePeriod_Never(currentPeriodEnd, t) == FALSE

\* variant: a period ending now still counts as paid
isGracePeriod_Inclusive(currentPeriodEnd, t) ==
    currentPeriodEnd # NoTime /\ currentPeriodEnd >= t

\* const isGracePeriod = currentPeriodEnd && currentPeriodEnd > now
isGracePeriod(currentPeriodEnd, t) ==
    currentPeriodEnd # NoTime /\ currentPeriodEnd > t

\* variant: the deletion is applied to the subscriber without looking up
\* who holds the subscription
SubscriptionDeleted_AnyProfile(p, e, t) ==
    Outcome(p.id,
            [ plan_id              |-> NULL,
              active               |-> FALSE,
              current_period_end   |-> NoTime,
              plan_used            |-> 0,
              cancel_at_period_end |-> FALSE,
              subscription_status  |-> "canceled",
              pending_plan_change  |-> FALSE,
              target_plan_id       |-> NULL ],
            <<>>, FALSE, {})

\* case 'customer.subscription.deleted'
SubscriptionDeleted(p, e, t) ==
    IF p.stripe_subscription_id # e.subscription
    THEN Skip(<<>>)
    ELSE IF isGracePeriod(e.current_period_end, t)
    THEN Outcome(p.id,
                 [ active               |-> TRUE,
                   cancel_at_period_end |-> TRUE,
                   current_period_end   |-> e.current_period_end,
                   subscription_status  |-> "canceled" ],
                 <<>>, FALSE, {})
    ELSE Outcome(p.id,
                 [ plan_id              |-> NULL,
                   active               |-> FALSE,
                   current_period_end   |-> NoTime,
                   plan_used            |-> 0,
                   cancel_at_period_end |-> FALSE,
                   subscription_status  |-> "canceled",
                   pending_plan_change  |-> FALSE,
                   target_plan_id       |-> NULL ],
                 <<>>, FALSE, {})

\* variant: current_period_end is written even when it was not retrieved
InvoicePaymentSucceeded_AlwaysWritesPeriod(p, e, x) ==
    IF e.subscription = NULL
    THEN Skip(<<>>)
    ELSE IF p.stripe_subscription_id # e.subscription
    THEN Skip(<<>>)
    ELSE Outcome(p.id,
                 [ plan_used            |-> 0,
                   active               |-> TRUE,
                   cancel_at_period_end |-> FALSE,
                   current_period_end   |-> x.period_end ],
                 <<>>, FALSE, {"subscriptions.retrieve"})

\* case 'invoice.payment_succeeded'
InvoicePaymentSucceeded(p, e, x) ==
    IF e.subscription = NULL
    THEN Skip(<<>>)
    ELSE IF p.stripe_subscription_id # e.subscription
    THEN Skip(<<>>)
    ELSE LET updateData == [ plan_used            |-> 0,
                             active               |-> TRUE,
                             cancel_at_period_end |-> FALSE ]
         IN  Outcome(p.id,
                     IF x.period_end # NoTime
                     THEN updateData @@ [current_period_end |-> x.period_end]
                     ELSE updateData,
                     <<>>, FALSE, {"subscriptions.retrieve"})

\* variant: the first failed attempt already counts as the last
hasMoreAttempts_Never(e) == FALSE

\* const hasMoreAttempts = invoiceData.next_payment_attempt !== null
hasMoreAttempts(e) == e.next_payment_attempt # NoTime

\* case 'invoice.payment_failed'
InvoicePaymentFailed(p, e) ==
    IF e.subscription = NULL
    THEN Skip(<<>>)
    ELSE IF p.stripe_subscription_id # e.subscription
    THEN Skip(<<>>)
    ELSE IF hasMoreAttempts(e)
         THEN Skip(<<>>)
         ELSE Outcome(p.id,
                      [ active              |-> FALSE,
                        plan_id             |-> NULL,
                        subscription_status |-> "unpaid" ],
                      <<Alert("subscription_mismatch", "warning")>>, FALSE, {})

\* switch (event.type)
Switch(p, e, x, t) ==
    CASE e.type = "checkout.session.completed"    -> CheckoutSessionCompleted(p, e, x)
      [] e.type = "customer.subscription.created" -> SubscriptionCreated(p, e, x)
      [] e.type = "customer.subscription.updated" -> SubscriptionUpdated(p, e, x)
      [] e.type = "customer.subscription.deleted" -> SubscriptionDeleted(p, e, t)
      [] e.type = "invoice.payment_succeeded"     -> InvoicePaymentSucceeded(p, e, x)
      [] e.type = "invoice.payment_failed"        -> InvoicePaymentFailed(p, e)
      [] OTHER                                    -> Skip(<<>>)

----------------------------------------------------------------------------
\* Failures of the datastore a request can meet. Each helper catches or
\* ignores them.
Faults   == [db_ok : BOOLEAN, ledger_ok : BOOLEAN, alert_ok : BOOLEAN]
NoFaults == [db_ok |-> TRUE, ledger_ok |-> TRUE, alert_ok |-> TRUE]

\* lib/webhook-helpers

\* variant: the ledger is never consulted
isDuplicateEvent_Never(ledger, eventId, f) == FALSE

\* select event_id from webhook_events where event_id = eventId;
\* an error counts as "not a duplicate"
isDuplicateEvent(ledger, eventId, f) == f.ledger_ok /\ ledger[eventId] > 0

\* insert into webhook_events; event_id is UNIQUE, so a second insert of
\* the same id is rejected; neither a rejection nor a failure is looked at
logWebhookEvent(ledger, eventId, f) ==
    IF f.ledger_ok /\ ledger[eventId] = 0
    THEN [ledger EXCEPT ![eventId] = 1]
    ELSE ledger

\* logAlert: insert into webhook_alerts; a failure is caught and logged
logAlert(al, f) == IF f.alert_ok THEN al ELSE <<>>

\* variant: logAlert lets the error of a failed insert escape to its caller
logAlertThrows_Rethrows(al, f) == al # <<>> /\ ~f.alert_ok

\* logAlert's try/catch: no error of the insert or of the critical
\* notification escapes to the caller
logAlertThrows(al, f) == FALSE

\* updateProfileAtomic({ userId, updates }): success flag and resulting row
updateProfileAtomic(p, userId, updates, f) ==
    IF f.db_ok
    THEN [success |-> TRUE,  row |-> ApplyUpdate(p, userId, updates)]
    ELSE [success |-> FALSE, row |-> p]

----------------------------------------------------------------------------
\* POST /api/stripe/webhook, for a delivery that passed constructEvent
WebhookResult(p, ledger, id, e, x, f, t) ==
    IF isDuplicateEvent(ledger, id, f)
    THEN [profile |-> p, ledger |-> ledger, status |-> 200, alerts |-> <<>>,
          duplicate |-> TRUE, asked |-> {}]
    ELSE LET o == Switch(p, e, x, t)
             escaped == logAlertThrows(o.alerts, f)
         IN
         [ profile   |-> IF o.userId = NULL \/ escaped THEN p
                         ELSE updateProfileAtomic(p, o.userId, o.updates, f).row,
           ledger    |-> logWebhookEvent(ledger, id, f),
           status    |-> IF o.thrown \/ escaped THEN 400 ELSE 200,
           alerts    |-> logAlert(o.alerts, f),
           duplicate |-> FALSE,
           asked     |-> o.asked ]

NoRequest == [kind |-> "none"]

\* Stripe before the subscriber's first checkout: no session, no
\* subscription, nothing to deliver
NoStripe == [session |-> NULL, subscription |-> "none", events |-> {}]

WebhookRequest(id, e, x, f, dup, p) ==
    [kind |-> "webhook", id |-> id, event |-> e, answers |-> x, faults |-> f,
     duplicate |-> dup, before |-> p]

Handle(ledger, id, e, f) ==
    \E x \in AnswersFor(e) :
      \E r \in {WebhookResult(profile, ledger, id, e, x, f, now)} :
        /\ AnswersAsked(x, r.asked)
        /\ profile' = r.profile
        /\ webhook_events' = r.ledger
        /\ response' = r.status
        /\ alerts' = r.alerts
        /\ request' = WebhookRequest(id, e, x, f, r.duplicate, profile)
        /\ stripe_calls' = <<>>
        /\ UNCHANGED <<now, inflight>>

\* the processor delivers an event it has not delivered before: no row of
\* the ledger carries its id
Deliver(evs) ==
    /\ request.kind = "none"
    /\ \E id \in EventIds, e \in evs :
         Handle([i \in EventIds |-> 0], id, e, NoFaults)
    /\ UNCHANGED stripe

WebhookPOST == Deliver(Events)

\* the events of one subscription's life that follow a checkout: completed
\* session, plan changes while active, cancellation, renewal, final failure
LifecycleEvents ==
    { e \in Events :
        CASE e.type = "checkout.session.completed" ->
                 e.userId # NULL /\ e.subscription # NULL
          [] e.type = "customer.subscription.updated" ->
                 e.price # NULL /\ e.status = "active" /\ ~e.cancel_at_period_end
          [] e.type = "customer.subscription.deleted" -> TRUE
          [] e.type = "invoice.payment_succeeded" -> e.subscription # NULL
          [] e.type = "invoice.payment_failed" ->
                 e.subscription # NULL /\ e.next_payment_attempt = NoTime
          [] OTHER -> FALSE }

WebhookPOSTLifecycle == Deliver(LifecycleEvents)

\* the processor delivers the latest event again (at-least-once delivery)
WebhookRedeliver ==
    /\ request.kind = "webhook"
    /\ Handle(webhook_events, request.id, request.event, NoFaults)
    /\ UNCHANGED stripe

----------------------------------------------------------------------------
\* POST /api/checkout

\* .from('plans').ilike('name', planName).single(): case-insensitive
LowerCase(name) ==
    CASE name \in {"Basic", "BASIC"} -> "basic"
      [] name = "Pro"                -> "pro"
      [] name = "Agency"             -> "agency"
      [] OTHER                       -> name

PlanByName(planName) ==
    LET hit == {id \in PlanIds : LowerCase(plans[id].name) = LowerCase(planName)}
    IN  IF Cardinality(hit) = 1 THEN CHOOSE id \in hit : TRUE ELSE NULL

\* what the form posts, and whether the session cookie authenticates
CheckoutForms ==
    [ auth : {TRUE}, plan : {"basic", "Pro", "gold"}, currency : {"PLN", "USD", "EUR"} ]
    \cup { [auth |-> TRUE,  plan |-> NULL,    currency |-> "USD"],
           [auth |-> TRUE,  plan |-> "basic", currency |-> NULL],
           [auth |-> FALSE, plan |-> "basic", currency |-> "USD"] }

\* how Stripe answers on the fork the request takes
InPlaceAnswers == {"retrieve_throws", "not_active", "no_item", "update_throws", "updated"}
HostedAnswers  == {"create_throws", "no_url", "url"}
CheckoutAnswers == InPlaceAnswers \cup HostedAnswers \cup {"not_called"}

Reject(status) ==
    [status |-> status, calls |-> <<>>, write |-> FALSE, updates |-> NoUpdate,
     fork |-> "none"]

\* steps 1-4: authentication and parameters; NULL when they pass
CheckParameters(form) ==
    IF ~form.auth THEN 401
    ELSE IF form.plan = NULL \/ form.currency = NULL THEN 400
    ELSE IF form.currency \notin {"PLN", "USD"} THEN 400
    ELSE IF PlanByName(form.plan) = NULL THEN 400
    ELSE LET plan == plans[PlanByName(form.plan)]
             stripePriceId == IF form.currency = "PLN" THEN plan.stripe_price_id_pln
                              ELSE plan.stripe_price_id_usd
         IN  IF stripePriceId = NULL THEN 400 ELSE 0

\* variant: the same-plan check comes first
CheckProfile_SamePlanFirst(existingProfile, planId, t) ==
    IF existingProfile.plan_id = planId /\ existingProfile.active THEN 400
    ELSE IF existingProfile.last_checkout_at # NoTime
            /\ t - existingProfile.last_checkout_at < CooldownMs THEN 429
    ELSE IF existingProfile.pending_plan_change THEN 409
    ELSE 0

\* variant: the pending check comes before the rate limit
CheckProfile_PendingFirst(existingProfile, planId, t) ==
    IF existingProfile.pending_plan_change THEN 409
    ELSE IF existingProfile.last_checkout_at # NoTime
            /\ t - existingProfile.last_checkout_at < CooldownMs THEN 429
    ELSE IF existingProfile.plan_id = planId /\ existingProfile.active THEN 400
    ELSE 0

\* steps 6-8 on the profile read in step 5; 0 when they pass
CheckProfile(existingProfile, planId, t) ==
    IF existingProfile.last_checkout_at # NoTime
       /\ t - existingProfile.last_checkout_at < CooldownMs THEN 429
    ELSE IF existingProfile.pending_plan_change THEN 409
    ELSE IF existingProfile.plan_id = planId /\ existingProfile.active THEN 400
    ELSE 0

\* variant: a subscription that is being cancelled counts as none
hasActiveSubscription_NotCancelling(existingProfile) ==
    /\ existingProfile.stripe_subscription_id # NULL
    /\ existingProfile.active
    /\ ~existingProfile.cancel_at_period_end

hasActiveSubscription(existingProfile) ==
    existingProfile.stripe_subscription_id # NULL /\ existingProfile.active

\* variant: the requested plan is shown at once, before the webhook confirms
PendingState_Optimistic(planId, t) ==
    [ pending_plan_change |-> TRUE,
      target_plan_id      |-> planId,
      last_checkout_at    |-> t,
      plan_id             |-> planId ]

PendingState(planId, t) ==
    [ pending_plan_change |-> TRUE,
      target_plan_id      |-> planId,
      last_checkout_at    |-> t ]

\* step 9 on the profile read in step 5: the Stripe calls, the response and
\* the profile write
Fork(existingProfile, planId, a, t) ==
    IF hasActiveSubscription(existingProfile)
    THEN CASE a = "retrieve_throws" ->
                [status |-> 500, calls |-> <<"subscriptions.retrieve">>,
                 write |-> FALSE, updates |-> NoUpdate, fork |-> "in_place"]
           [] a = "not_active" ->
                [status |-> 400, calls |-> <<"subscriptions.retrieve">>,
                 write |-> FALSE, updates |-> NoUpdate, fork |-> "in_place"]
           [] a = "no_item" ->
                [status |-> 500, calls |-> <<"subscriptions.retrieve">>,
                 write |-> FALSE, updates |-> NoUpdate, fork |-> "in_place"]
           [] a = "update_throws" ->
                [status |-> 500,
                 calls |-> <<"subscriptions.retrieve", "subscriptions.update">>,
                 write |-> FALSE, updates |-> NoUpdate, fork |-> "in_place"]
           [] OTHER ->
                [status |-> 303,
                 calls |-> <<"subscriptions.retrieve", "subscriptions.update">>,
                 write |-> TRUE, updates |-> PendingState(planId, t),
                 fork |-> "in_place"]
    ELSE CASE a = "create_throws" ->
                [status |-> 500, calls |-> <<"checkout.sessions.create">>,
                 write |-> FALSE, updates |-> NoUpdate, fork |-> "hosted"]
           [] a = "no_url" ->
                [status |-> 500, calls |-> <<"checkout.sessions.create">>,
                 write |-> FALSE, updates |-> NoUpdate, fork |-> "hosted"]
           [] OTHER ->
                [status |-> 303, calls |-> <<"checkout.sessions.create">>,
                 write |-> TRUE, updates |-> PendingState(planId, t),
                 fork |-> "hosted"]

\* the answers a fork can receive
AnswersOnFork(fork) ==
    CASE fork = "in_place" -> InPlaceAnswers
      [] fork = "hosted"   -> HostedAnswers
      [] OTHER             -> {"not_called"}

CheckoutResult(p, form, a, t) ==
    IF CheckParameters(form) # 0
    THEN Reject(CheckParameters(form))
    ELSE LET planId == PlanByName(form.plan) IN
         IF CheckProfile(p, planId, t) # 0
         THEN Reject(CheckProfile(p, planId, t))
         ELSE Fork(p, planId, a, t)

CheckoutRequest(form, a, f, p) ==
    [kind |-> "checkout", form |-> form, answers |-> a, faults |-> f, before |-> p]

Checkout(form, f) ==
    \E a \in CheckoutAnswers :
      \E r \in {CheckoutResult(profile, form, a, now)} :
        /\ a \in AnswersOnFork(r.fork)
        /\ profile' = IF r.write /\ f.db_ok
                      THEN ApplyUpdate(profile, UserId, r.updates)
                      ELSE profile
        /\ response' = r.status
        /\ stripe_calls' = r.calls
        /\ request' = CheckoutRequest(form, a, f, profile)
        /\ alerts' = <<>>
        /\ webhook_events' = [i \in EventIds |-> 0]
        /\ UNCHANGED <<now, inflight>>

CheckoutPOST ==
    /\ request.kind = "none"
    /\ \E form \in CheckoutForms : Checkout(form, NoFaults)
    /\ UNCHANGED stripe

----------------------------------------------------------------------------
\* Requests that can meet a failing write to public.profiles: the update
\* returns an error (updateProfileAtomic: success = false; checkout:
\* updateError)
ProfileWriteFaults == {f \in Faults : f.ledger_ok /\ f.alert_ok}

WebhookPOSTWriteFault ==
    /\ request.kind = "none"
    /\ \E id \in EventIds, e \in LifecycleEvents, f \in ProfileWriteFaults :
         Handle([i \in EventIds |-> 0], id, e, f)
    /\ UNCHANGED stripe

CheckoutPOSTWriteFault ==
    /\ request.kind = "none"
    /\ \E form \in CheckoutForms, f \in ProfileWriteFaults : Checkout(form, f)
    /\ UNCHANGED stripe

\* Deliveries that can meet any failure of the datastore: of the profile
\* write, of the insert into the ledger, of the insert of an alert
WebhookPOSTFault ==
    /\ request.kind = "none"
    /\ \E id \in EventIds, e \in LifecycleEvents, f \in Faults :
         Handle([i \in EventIds |-> 0], id, e, f)
    /\ UNCHANGED stripe

----------------------------------------------------------------------------
\* Two POST /api/checkout requests of the same subscriber handled at the same
\* time. Each await of the handler is a point where the other request can
\* run: the profile read (step 5), the Stripe calls (step 9), the profile
\* write that marks the pending state.
Requests == {"r1", "r2"}

NoForm == [auth |-> FALSE, plan |-> NULL, currency |-> NULL]

NotStarted ==
    [pc |-> "start", form |-> NoForm, existingProfile |-> NewProfile,
     calls |-> <<>>, status |-> 0]

\* steps 1-8: the request is rejected, or goes on with the profile it read
CheckoutRead(r) ==
    /\ inflight[r].pc = "start"
    /\ \E form \in CheckoutForms :
         LET rejected ==
                 IF CheckParameters(form) # 0 THEN CheckParameters(form)
                 ELSE CheckProfile(profile, PlanByName(form.plan), now)
         IN  inflight' = [inflight EXCEPT ![r] =
                 [ pc              |-> IF rejected # 0 THEN "done" ELSE "stripe",
                   form            |-> form,
                   existingProfile |-> profile,
                   calls           |-> <<>>,
                   status          |-> rejected ]]
    /\ UNCHANGED <<stripe, profile, webhook_events, now, request, response, alerts, stripe_calls>>

\* step 9 up to the profile write: the Stripe calls of the fork chosen from
\* the profile read in step 5
CheckoutStripe(r) ==
    /\ inflight[r].pc = "stripe"
    /\ \E a \in CheckoutAnswers :
         LET q   == inflight[r]
             res == Fork(q.existingProfile, PlanByName(q.form.plan), a, now)
         IN  /\ a \in AnswersOnFork(res.fork)
             /\ inflight' = [inflight EXCEPT ![r] =
                    [q EXCEPT !.pc = IF res.write THEN "write" ELSE "done",
                              !.calls = res.calls,
                              !.status = res.status]]
             /\ stripe_calls' = stripe_calls \o res.calls
    /\ UNCHANGED <<stripe, profile, webhook_events, now, request, response, alerts>>

\* the profile write that marks the pending state, then the 303
CheckoutWrite(r) ==
    /\ inflight[r].pc = "write"
    /\ profile' = ApplyUpdate(profile, UserId,
                              PendingState(PlanByName(inflight[r].form.plan), now))
    /\ inflight' = [inflight EXCEPT ![r].pc = "done"]
    /\ UNCHANGED <<stripe, webhook_events, now, request, response, alerts, stripe_calls>>

ConcurrentCheckout ==
    \E r \in Requests : CheckoutRead(r) \/ CheckoutStripe(r) \/ CheckoutWrite(r)

\* a subscriber after the checkout.session.completed of a Basic subscription
Subscribed ==
    ApplyUpdate(NewProfile, UserId,
        CheckoutSessionCompleted(NewProfile,
            Event("checkout.session.completed", UserId, "cus_1", "sub_1", NULL, NULL,
                  FALSE, NoTime, NoTime),
            [session_price |-> "price_basic_pln", period_end |-> NoTime]).updates)

----------------------------------------------------------------------------
\* Two webhook deliveries handled at the same time. Each await of the handler
\* is a point where the other delivery can run: the duplicate check, the
\* insert into the ledger, the lookups of the event-type case, the profile
\* write.

\* ids of the deliveries in progress: the latest event's and the next one's
DeliveryIds == EventIds \cup {"evt_next"}

\* an id names one event: a delivery with the id of a delivery in progress
\* carries the same event
SameEventPerId(r, id, e) ==
    \A o \in Requests \ {r} :
        ("id" \in DOMAIN inflight[o] /\ inflight[o].id = id) => inflight[o].event = e

\* const duplicate = await isDuplicateEvent(event.id); a duplicate is
\* answered 200 at once
DeliveryCheck(r, evs) ==
    /\ inflight[r].pc = "start"
    /\ \E id \in DeliveryIds, e \in evs :
         /\ SameEventPerId(r, id, e)
         /\ \E x \in AnswersFor(e) :
              LET dup == isDuplicateEvent(webhook_events, id, NoFaults) IN
              inflight' = [inflight EXCEPT ![r] =
                  [ pc              |-> IF dup THEN "done" ELSE "log",
                    id              |-> id,
                    event           |-> e,
                    answers         |-> x,
                    duplicate       |-> dup,
                    existingProfile |-> NewProfile,
                    userId          |-> NULL,
                    updates         |-> NoUpdate,
                    status          |-> IF dup THEN 200 ELSE 0 ]]
    /\ UNCHANGED <<stripe, profile, webhook_events, now, request, response, alerts, stripe_calls>>

\* await logWebhookEvent(...): the result of the insert is not looked at
DeliveryLog(r) ==
    /\ inflight[r].pc = "log"
    /\ webhook_events' = logWebhookEvent(webhook_events, inflight[r].id, NoFaults)
    /\ inflight' = [inflight EXCEPT ![r].pc = "switch"]
    /\ UNCHANGED <<stripe, profile, now, request, response, alerts, stripe_calls>>

\* the case of the event type up to its profile write: the profile lookup
\* and what is decided from the row it returns
DeliverySwitch(r) ==
    /\ inflight[r].pc = "switch"
    /\ LET q == inflight[r]
           o == Switch(profile, q.event, q.answers, now)
       IN  /\ AnswersAsked(q.answers, o.asked)
           /\ inflight' = [inflight EXCEPT ![r] =
                  [q EXCEPT !.pc = IF o.userId = NULL THEN "done" ELSE "update",
                            !.existingProfile = profile,
                            !.userId = o.userId,
                            !.updates = o.updates,
                            !.status = IF o.userId # NULL THEN 0
                                       ELSE IF o.thrown THEN 400 ELSE 200]]
    /\ UNCHANGED <<stripe, profile, webhook_events, now, request, response, alerts, stripe_calls>>

\* await updateProfileAtomic({ userId, updates }), then the 200
DeliveryUpdate(r) ==
    /\ inflight[r].pc = "update"
    /\ profile' = updateProfileAtomic(profile, inflight[r].userId,
                                      inflight[r].updates, NoFaults).row
    /\ inflight' = [inflight EXCEPT ![r].pc = "done", ![r].status = 200]
    /\ UNCHANGED <<stripe, webhook_events, now, request, response, alerts, stripe_calls>>

ConcurrentDelivery ==
    \E r \in Requests :
        \/ DeliveryCheck(r, LifecycleEvents)
        \/ DeliveryLog(r)
        \/ DeliverySwitch(r)
        \/ DeliveryUpdate(r)

----------------------------------------------------------------------------
\* A plan change in place and the delivery of the event that confirms it,
\* handled at the same time. Stripe sends customer.subscription.updated as
\* soon as subscriptions.update has changed the subscription, while the
\* checkout request still has its profile write before it.

\* const stripePriceId = currency === 'PLN' ? plan.stripe_price_id_pln
\*                                          : plan.stripe_price_id_usd
stripePriceId(form) ==
    IF form.currency = "PLN"
    THEN plans[PlanByName(form.plan)].stripe_price_id_pln
    ELSE plans[PlanByName(form.plan)].stripe_price_id_usd

\* the event Stripe sends for the subscriptions.update of checkout request c
ConfirmingEvent(c) ==
    Event("customer.subscription.updated", NULL, NULL,
          inflight[c].existingProfile.stripe_subscription_id,
          stripePriceId(inflight[c].form), "active", FALSE, NoTime, NoTime)

\* checkout request c has changed the subscription at Stripe
SubscriptionChanged(c) ==
    /\ inflight[c].pc \in {"write", "done"}
    /\ inflight[c].status = 303
    /\ inflight[c].calls = <<"subscriptions.retrieve", "subscriptions.update">>

Confirmation(r, c) ==
    /\ SubscriptionChanged(c)
    /\ DeliveryCheck(r, {ConfirmingEvent(c)})

CheckoutAndConfirmation ==
    \/ CheckoutRead("r1")
    \/ CheckoutStripe("r1")
    \/ CheckoutWrite("r1")
    \/ Confirmation("r2", "r1")
    \/ DeliveryLog("r2")
    \/ DeliverySwitch("r2")
    \/ DeliveryUpdate("r2")

----------------------------------------------------------------------------
\* The subscriber and Stripe over time. Stripe sends an event only for
\* something that happened: a hosted session that was paid, a subscription
\* changed by subscriptions.update, a subscription cancelled. A hosted
\* session the subscriber never pays produces no event.

\* an event Stripe has yet to deliver, with the price of its session
Owed(e, price) == [event |-> e, session_price |-> price]

\* POST /api/checkout, with what the Stripe call it makes starts at Stripe:
\* checkout.sessions.create opens a hosted session; subscriptions.update
\* changes the live subscription, which Stripe reports
CheckoutPOSTOwed ==
    /\ request.kind = "none"
    /\ \E form \in CheckoutForms : Checkout(form, NoFaults)
    /\ ("subscriptions.update" \in {stripe_calls'[k] : k \in 1..Len(stripe_calls')}
           /\ response' = 303) => stripe.subscription = "live"
    /\ stripe' =
         CASE response' = 303 /\ stripe_calls' = <<"checkout.sessions.create">> ->
                  [stripe EXCEPT !.session = stripePriceId(request'.form)]
           [] response' = 303 /\ stripe_calls' # <<"checkout.sessions.create">> ->
                  [stripe EXCEPT !.events = @ \cup
                      { Owed(Event("customer.subscription.updated", NULL, NULL,
                                   profile.stripe_subscription_id,
                                   stripePriceId(request'.form), "active", FALSE,
                                   NoTime, NoTime), NULL) }]
           [] OTHER -> stripe

\* the subscriber pays on the hosted page: the subscription starts and
\* Stripe owes the checkout.session.completed event (metadata.userId is
\* set by the checkout request that created the session)
Pay ==
    /\ stripe.session # NULL
    /\ stripe.subscription # "live"
    /\ stripe' = [ session      |-> NULL,
                   subscription |-> "live",
                   events       |-> stripe.events \cup
                       { Owed(Event("checkout.session.completed", UserId, "cus_1",
                                    "sub_1", NULL, NULL, FALSE, NoTime, NoTime),
                              stripe.session) } ]
    /\ UNCHANGED <<profile, webhook_events, now, request, response, alerts,
                   stripe_calls, inflight>>

\* the subscription is cancelled at Stripe, with or without paid time left:
\* Stripe owes customer.subscription.deleted and nothing after it
Cancel ==
    /\ stripe.subscription = "live"
    /\ \E e \in SubscriptionDeletedEvents :
         stripe' = [stripe EXCEPT !.subscription = "deleted",
                                  !.events = @ \cup {Owed(e, NULL)}]
    /\ UNCHANGED <<profile, webhook_events, now, request, response, alerts,
                   stripe_calls, inflight>>

\* Stripe delivers an event it owes; its retrieve calls succeed
DeliverOwed ==
    /\ request.kind = "none"
    /\ \E d \in stripe.events :
         /\ \E id \in EventIds : Handle([i \in EventIds |-> 0], id, d.event, NoFaults)
         /\ request'.answers.session_price = d.session_price
         /\ stripe' = [stripe EXCEPT !.events = @ \ {d}]

----------------------------------------------------------------------------
\* The response is returned; requests are handled one after the other, and
\* the next one finds only the profile
Return ==
    /\ request.kind # "none"
    /\ request' = NoRequest
    /\ webhook_events' = [i \in EventIds |-> 0]
    /\ response' = 0
    /\ alerts' = <<>>
    /\ stripe_calls' = <<>>
    /\ UNCHANGED <<stripe, profile, now, inflight>>

\* The collaborator that meters consumption: one more generation used
Consume ==
    /\ request.kind = "none"
    /\ profile.active
    /\ profile.plan_id # NULL
    /\ profile.plan_used < MaxUsage
    /\ profile' = [profile EXCEPT !.plan_used = @ + 1]
    /\ UNCHANGED <<stripe, webhook_events, now, request, response, alerts, stripe_calls, inflight>>

Tick ==
    /\ request.kind = "none"
    /\ now < MaxTicks * TickMs
    /\ now' = now + TickMs
    /\ UNCHANGED <<stripe, profile, webhook_events, request, response, alerts, stripe_calls, inflight>>

Init ==
    /\ profile = NewProfile
    /\ webhook_events = [i \in EventIds |-> 0]
    /\ now = 0
    /\ request = NoRequest
    /\ response = 0
    /\ alerts = <<>>
    /\ stripe_calls = <<>>
    /\ inflight = [r \in Requests |-> NotStarted]
    /\ stripe = NoStripe

\* The webhook endpoint: deliveries and redeliveries, one after the other
Next ==
    \/ WebhookPOST
    \/ WebhookRedeliver
    \/ Return
    \/ Consume
    \/ Tick

Spec == Init /\ [][Next]_vars

\* The checkout endpoint and the webhook endpoint over one subscription's life
NextBilling ==
    \/ CheckoutPOST
    \/ WebhookPOSTLifecycle
    \/ Return
    \/ Consume
    \/ Tick

SpecBilling == Init /\ [][NextBilling]_vars

\* Both endpoints with every event, requests handled one after the other
NextAll ==
    \/ CheckoutPOST
    \/ WebhookPOST
    \/ WebhookRedeliver
    \/ Return
    \/ Consume
    \/ Tick

SpecAll == Init /\ [][NextAll]_vars

\* Both endpoints over one subscription's life, with profile writes that can
\* fail
NextWriteFaults ==
    \/ CheckoutPOSTWriteFault
    \/ WebhookPOSTWriteFault
    \/ Return
    \/ Consume
    \/ Tick

SpecWriteFaults == Init /\ [][NextWriteFaults]_vars

\* The webhook endpoint over one subscription's life, with a datastore that
\* can fail
NextFaults ==
    \/ WebhookPOSTFault
    \/ WebhookRedeliver
    \/ Return
    \/ Consume
    \/ Tick

SpecFaults == Init /\ [][NextFaults]_vars

\* One subscriber's life with Stripe: checkouts, payment, cancellation, and
\* the deliveries they cause. Stripe retries until it has delivered what it
\* owes, every request is answered and time passes; the subscriber is free
\* to act or not.
NextLife ==
    \/ CheckoutPOSTOwed
    \/ Pay
    \/ Cancel
    \/ DeliverOwed
    \/ Return
    \/ Consume
    \/ Tick

SpecLife ==
    /\ Init
    /\ [][NextLife]_vars
    /\ SF_vars(DeliverOwed)
    /\ WF_vars(Return)
    /\ WF_vars(Tick)

\* Two checkout requests at the same time, for a new and for a subscribed user
InitRace ==
    /\ profile \in {NewProfile, Subscribed}
    /\ webhook_events = [i \in EventIds |-> 0]
    /\ now = 0
    /\ request = NoRequest
    /\ response = 0
    /\ alerts = <<>>
    /\ stripe_calls = <<>>
    /\ inflight = [r \in Requests |-> NotStarted]
    /\ stripe = NoStripe

NextRace == ConcurrentCheckout

SpecRace == InitRace /\ [][NextRace]_vars

\* A checkout request and the delivery that confirms it at the same time
InitConfirm ==
    /\ profile \in {NewProfile, Subscribed, [Subscribed EXCEPT !.plan_used = MaxUsage]}
    /\ webhook_events = [i \in DeliveryIds |-> 0]
    /\ now = 0
    /\ request = NoRequest
    /\ response = 0
    /\ alerts = <<>>
    /\ stripe_calls = <<>>
    /\ inflight = [r \in Requests |-> NotStarted]
    /\ stripe = NoStripe

NextConfirm == CheckoutAndConfirmation

SpecConfirm == InitConfirm /\ [][NextConfirm]_vars

\* Two webhook deliveries at the same time, for a subscriber with and without
\* usage in the period
InitDeliveries ==
    /\ profile \in {Subscribed, [Subscribed EXCEPT !.plan_used = MaxUsage]}
    /\ webhook_events = [i \in DeliveryIds |-> 0]
    /\ now = 0
    /\ request = NoRequest
    /\ response = 0
    /\ alerts = <<>>
    /\ stripe_calls = <<>>
    /\ inflight = [r \in Requests |-> NotStarted]
    /\ stripe = NoStripe

NextDeliveries == ConcurrentDelivery

SpecDeliveries == InitDeliveries /\ [][NextDeliveries]_vars

----------------------------------------------------------------------------
\* Properties

\* the latest request was a webhook delivery of the given type that went
\* through the switch
Handled(type) ==
    /\ request.kind = "webhook"
    /\ ~request.duplicate
    /\ request.event.type = type

\* the handler's lookup by stripe_subscription_id found the profile
FoundBySubscription ==
    request.before.stripe_subscription_id = request.event.subscription

\* the plans carrying a price id
Carrying(priceId) ==
    {id \in PlanIds : priceId \in {plans[id].stripe_price_id_pln,
                                   plans[id].stripe_price_id_usd}}

\* C1: delivering the latest event again, any number of times, leaves the
\* profile as the first delivery left it and the ledger with exactly one
\* row for its event_id.
C1_ReplayChangesNothing ==
    [][WebhookRedeliver =>
          /\ profile' = profile
          /\ webhook_events[request.id] = 1
          /\ webhook_events'[request.id] = 1]_vars

C1_Replayed ==
    /\ request.kind = "webhook"
    /\ request.duplicate
    /\ request.event.type = "customer.subscription.created"
    /\ request.before.plan_id = "pro"
    /\ profile.plan_id = "pro"
    /\ webhook_events[request.id] = 1

\* a customer.subscription.deleted event of the profile's subscription whose
\* current_period_end lies after the time of handling
DeletedInPaidPeriod ==
    /\ Handled("customer.subscription.deleted")
    /\ FoundBySubscription
    /\ request.event.current_period_end # NoTime
    /\ request.event.current_period_end > now

\* C2: a customer.subscription.deleted event whose current_period_end is in
\* the future leaves active = true, plan_id as it was, and
\* cancel_at_period_end = true.
C2_GraceDeletion ==
    DeletedInPaidPeriod =>
        /\ profile.active
        /\ profile.plan_id = request.before.plan_id
        /\ profile.cancel_at_period_end

C2_GraceDeletionHandled ==
    /\ DeletedInPaidPeriod
    /\ request.before.plan_id = "pro"
    /\ ~request.before.cancel_at_period_end
    /\ profile.cancel_at_period_end
    /\ profile.current_period_end = request.event.current_period_end

\* C3: in every reachable state, a profile with cancel_at_period_end = true
\* and a current_period_end still in the future has active = true (and the
\* plan it had when the cancellation was recorded).
C3_GraceKeepsAccess ==
    ( /\ profile.cancel_at_period_end
      /\ profile.current_period_end # NoTime
      /\ profile.current_period_end > now )
    => profile.active

\* C4: a customer.subscription.deleted event whose current_period_end is in
\* the past or absent leaves plan_id = null, active = false, plan_used = 0
\* and cancel_at_period_end, pending_plan_change, target_plan_id cleared.
C4_ImmediateDeletion ==
    ( /\ Handled("customer.subscription.deleted")
      /\ FoundBySubscription
      /\ ( \/ request.event.current_period_end = NoTime
           \/ request.event.current_period_end <= now ) )
    => /\ profile.plan_id = NULL
       /\ ~profile.active
       /\ profile.plan_used = 0
       /\ ~profile.cancel_at_period_end
       /\ ~profile.pending_plan_change
       /\ profile.target_plan_id = NULL

C4_ImmediateDeletionHandled ==
    /\ Handled("customer.subscription.deleted")
    /\ FoundBySubscription
    /\ request.event.current_period_end # NoTime
    /\ request.event.current_period_end < now
    /\ request.before.pending_plan_change
    /\ request.before.plan_used > 0
    /\ request.before.active
    /\ profile.plan_id = NULL

\* a customer.subscription.updated event of the profile's subscription whose
\* price one plan carries
UpdatedToPlan ==
    /\ Handled("customer.subscription.updated")
    /\ FoundBySubscription
    /\ request.event.price # NULL
    /\ Cardinality(Carrying(request.event.price)) = 1

NewPlan == CHOOSE id \in Carrying(request.event.price) : TRUE

LowersLimit ==
    /\ request.before.plan_id \in PlanIds
    /\ plans[NewPlan].monthly_limit < plans[request.before.plan_id].monthly_limit

\* C5: a customer.subscription.updated event to a plan with a strictly lower
\* monthly limit than the current plan's resets plan_used to 0, sets plan_id
\* to the new plan and sets active by the event's status (true for active
\* and trialing); only the limits are compared.
C5_DowngradeResetsUsage ==
    (UpdatedToPlan /\ LowersLimit) =>
        /\ profile.plan_used = 0
        /\ profile.plan_id = NewPlan
        /\ profile.active = (request.event.status \in {"active", "trialing"})

C5_Downgraded ==
    /\ UpdatedToPlan
    /\ LowersLimit
    /\ request.before.plan_id = "agency"
    /\ request.before.plan_used > 0
    /\ request.event.status = "trialing"
    /\ profile.plan_id = "basic"
    /\ profile.active

\* C6: a customer.subscription.updated event to a plan whose monthly limit
\* is not lower than the current plan's (an equal limit and a null current
\* plan included) leaves plan_used as it was and sets plan_id to the new
\* plan.
C6_UpgradeKeepsUsage ==
    (UpdatedToPlan /\ ~LowersLimit) =>
        /\ profile.plan_used = request.before.plan_used
        /\ profile.plan_id = NewPlan

\* the cheaper of two plans with the same limit
C6_SameLimitCheaper ==
    /\ UpdatedToPlan
    /\ request.before.plan_id = "agency"
    /\ request.before.plan_used > 0
    /\ profile.plan_id = "pro"
    /\ profile.plan_used = request.before.plan_used

\* a checkout.session.completed event of the subscriber whose line item has
\* a price no plan carries
CompletedWithUnknownPrice ==
    /\ Handled("checkout.session.completed")
    /\ request.event.userId = request.before.id
    /\ request.event.subscription # NULL
    /\ request.answers.session_price \notin {NULL, "throw"}
    /\ Carrying(request.answers.session_price) = {}

\* C7: a checkout.session.completed event whose price matches no plan
\* leaves active = false, records the event's customer and subscription ids
\* and logs exactly one alert, of severity critical.
C7_UnknownPriceAtCheckout ==
    CompletedWithUnknownPrice =>
        /\ ~profile.active
        /\ profile.stripe_customer_id = request.event.customer
        /\ profile.stripe_subscription_id = request.event.subscription
        /\ Len(alerts) = 1
        /\ alerts[1].severity = "critical"

C7_UnknownPriceRecorded ==
    /\ CompletedWithUnknownPrice
    /\ request.before.stripe_subscription_id = NULL
    /\ profile.stripe_subscription_id = "sub_1"
    /\ profile.stripe_customer_id = "cus_1"
    /\ alerts = <<Alert("missing_price_id", "critical")>>

\* the price a handled event resolves its plan from matches no plan
PriceUnresolved ==
    \/ /\ Handled("checkout.session.completed")
       /\ request.event.userId # NULL
       /\ request.event.subscription # NULL
       /\ request.answers.session_price # "throw"
       /\ Carrying(request.answers.session_price) = {}
    \/ /\ Handled("customer.subscription.created")
       /\ Carrying(request.event.price) = {}
    \/ /\ Handled("customer.subscription.updated")
       /\ Carrying(request.event.price) = {}

\* C8: a checkout.session.completed, customer.subscription.created or
\* customer.subscription.updated event whose price resolves to no plan
\* never changes active from false to true.
C8_UnresolvedNeverGrants ==
    (PriceUnresolved /\ ~request.before.active) => ~profile.active

\* a checkout request arriving less than the cooldown after the last one
WithinCooldown ==
    /\ request.kind = "checkout"
    /\ request.before.last_checkout_at # NoTime
    /\ now - request.before.last_checkout_at < CooldownMs

\* C9: a checkout request within 60 seconds of the subscriber's previous one
\* is answered 429 (unless its parameters already fail), issues no Stripe
\* call and changes no profile field.
C9_CooldownRejects ==
    WithinCooldown =>
        /\ response = IF CheckParameters(request.form) # 0
                      THEN CheckParameters(request.form)
                      ELSE 429
        /\ stripe_calls = <<>>
        /\ profile = request.before

C9_SecondWithinCooldown ==
    /\ WithinCooldown
    /\ response = 429
    /\ request.form.plan = "Pro"
    /\ profile.pending_plan_change
    /\ profile.target_plan_id = "basic"
    /\ profile.last_checkout_at = now

\* the request's subscriptions.update / checkout.sessions.create succeeded:
\* it goes on to mark the pending state and answers 303
Started(r) ==
    /\ inflight[r].pc \in {"write", "done"}
    /\ inflight[r].status = 303
    /\ \E k \in 1..Len(inflight[r].calls) :
         inflight[r].calls[k] \in {"subscriptions.update", "checkout.sessions.create"}

\* C10: of two checkout requests of one subscriber handled at the same
\* time, at most one has its subscriptions.update / checkout.sessions.create
\* issued and marks the pending state; the other is rejected.
C10_AtMostOneOutstanding ==
    Cardinality({r \in Requests : Started(r)}) <= 1

\* an invoice.payment_failed event of the profile's subscription
InvoiceFailedForProfile ==
    /\ Handled("invoice.payment_failed")
    /\ request.event.subscription # NULL
    /\ FoundBySubscription

\* C11: an invoice.payment_failed event with no further attempt scheduled
\* sets active = false, plan_id = null, subscription_status = 'unpaid' and
\* logs exactly one alert; one with an attempt still scheduled changes no
\* profile field and logs no alert.
C11_PaymentFailed ==
    InvoiceFailedForProfile =>
        IF request.event.next_payment_attempt = NoTime
        THEN /\ ~profile.active
             /\ profile.plan_id = NULL
             /\ profile.subscription_status = "unpaid"
             /\ Len(alerts) = 1
        ELSE /\ profile = request.before
             /\ alerts = <<>>

C11_FinalAttemptFailed ==
    /\ InvoiceFailedForProfile
    /\ request.event.next_payment_attempt = NoTime
    /\ request.before.active
    /\ request.before.plan_id = "pro"
    /\ request.before.subscription_status = "past_due"
    /\ profile.subscription_status = "unpaid"

\* C12: in every reachable state pending_plan_change is true exactly when
\* target_plan_id is non-null.
C12_PendingIffTarget ==
    profile.pending_plan_change <=> (profile.target_plan_id # NULL)

\* C13: a checkout request, on either fork, accepted or rejected, leaves
\* active, plan_id and plan_used as they were.
C13_CheckoutKeepsEntitlement ==
    request.kind = "checkout" =>
        /\ profile.active = request.before.active
        /\ profile.plan_id = request.before.plan_id
        /\ profile.plan_used = request.before.plan_used

\* an accepted plan change of an active subscriber with usage
C13_InPlaceAccepted ==
    /\ request.kind = "checkout"
    /\ response = 303
    /\ stripe_calls = <<"subscriptions.retrieve", "subscriptions.update">>
    /\ request.before.active
    /\ request.before.plan_id = "basic"
    /\ request.before.plan_used > 0
    /\ ~request.before.pending_plan_change
    /\ profile.pending_plan_change
    /\ profile.target_plan_id = "pro"

\* C14: every delivery that passed constructEvent is answered 200, for a
\* detected duplicate and also when a later step of the processing fails
\* or throws; 400 is answered only when verification fails.
C14_VerifiedIsAcknowledged ==
    request.kind = "webhook" => response = 200

\* the processing of a recorded event failed: the Stripe call it made threw,
\* or the lookup of the profile by the event's subscription found no row
ProcessingFailed ==
    /\ request.kind = "webhook"
    /\ ~request.duplicate
    /\ webhook_events[request.id] = 1
    /\ \/ request.answers.session_price = "throw"
       \/ /\ request.event.type \in {"customer.subscription.updated",
                                     "customer.subscription.deleted",
                                     "invoice.payment_succeeded",
                                     "invoice.payment_failed"}
          /\ request.event.subscription # NULL
          /\ (request.event.type = "customer.subscription.updated"
                  => request.event.price # NULL)
          /\ ~FoundBySubscription

\* C15: whenever the processing of a recorded event fails, an alert is
\* logged before the handler responds.
C15_FailureIsAlerted ==
    ProcessingFailed => Len(alerts) >= 1

\* an invoice.payment_succeeded event of the profile's subscription
RenewalForProfile ==
    /\ Handled("invoice.payment_succeeded")
    /\ request.event.subscription # NULL
    /\ FoundBySubscription

\* a customer.subscription.deleted event of the profile's subscription whose
\* current_period_end is absent or not after the time of handling
DeletedAfterPeriod ==
    /\ Handled("customer.subscription.deleted")
    /\ FoundBySubscription
    /\ ( \/ request.event.current_period_end = NoTime
         \/ request.event.current_period_end <= now )

\* C16 as stated: plan_used is changed only by an invoice.payment_succeeded
\* event and by a customer.subscription.updated event classified as a
\* downgrade; no other event and no checkout request changes it.
C16_TwoResets ==
    (request.kind # "none" /\ profile.plan_used # request.before.plan_used)
        => (RenewalForProfile \/ (UpdatedToPlan /\ LowersLimit))

\* C16 amended: plan_used is set to 0 by exactly three transitions, an
\* invoice.payment_succeeded event, a customer.subscription.updated event
\* classified as a downgrade, and a customer.subscription.deleted event
\* whose period end is past or absent; no other event and no checkout
\* request changes it.
C16_ThreeResets ==
    request.kind # "none" =>
        IF RenewalForProfile \/ (UpdatedToPlan /\ LowersLimit) \/ DeletedAfterPeriod
        THEN profile.plan_used = 0
        ELSE profile.plan_used = request.before.plan_used

C16_ResetByDeletion ==
    /\ DeletedAfterPeriod
    /\ request.before.plan_used > 0
    /\ request.before.last_checkout_at # NoTime
    /\ profile.plan_used = 0

\* the preconditions of a checkout request, on the form posted and the
\* profile found
Unauthenticated == ~request.form.auth

InvalidPlanOrCurrency ==
    \/ request.form.plan = NULL
    \/ request.form.currency \notin {"PLN", "USD"}
    \/ PlanByName(request.form.plan) = NULL
    \/ /\ request.form.currency = "PLN"
       /\ plans[PlanByName(request.form.plan)].stripe_price_id_pln = NULL
    \/ /\ request.form.currency = "USD"
       /\ plans[PlanByName(request.form.plan)].stripe_price_id_usd = NULL

CoolingDown ==
    /\ request.before.last_checkout_at # NoTime
    /\ now - request.before.last_checkout_at < CooldownMs

AlreadyOnPlan ==
    /\ request.before.active
    /\ request.before.plan_id = PlanByName(request.form.plan)

\* the response of the first violated precondition, 0 when all hold
FirstViolated ==
    CASE Unauthenticated                     -> 401
      [] InvalidPlanOrCurrency               -> 400
      [] CoolingDown                         -> 429
      [] request.before.pending_plan_change  -> 409
      [] AlreadyOnPlan                       -> 400
      [] OTHER                               -> 0

C18_Renewal ==
    RenewalForProfile =>
        profile = [request.before EXCEPT
                     !.plan_used = 0,
                     !.active = TRUE,
                     !.cancel_at_period_end = FALSE,
                     !.current_period_end =
                         IF request.answers.period_end # NoTime
                         THEN request.answers.period_end
                         ELSE @]

\* a renewal whose period end could not be retrieved
C18_RenewedWithoutPeriod ==
    /\ RenewalForProfile
    /\ request.answers.period_end = NoTime
    /\ request.before.current_period_end # NoTime
    /\ request.before.plan_used > 0
    /\ request.before.cancel_at_period_end
    /\ request.before.plan_id = "pro"
    /\ profile.plan_used = 0
    /\ profile.current_period_end = request.before.current_period_end

\* a checkout.session.completed event of the subscriber whose line item has
\* a price one plan carries
CompletedWithKnownPrice ==
    /\ Handled("checkout.session.completed")
    /\ request.event.userId = request.before.id
    /\ request.event.subscription # NULL
    /\ request.answers.session_price \notin {NULL, "throw"}
    /\ Cardinality(Carrying(request.answers.session_price)) = 1

\* C19: a checkout.session.completed event whose price resolves to a plan
\* sets plan_id to that plan and active = true, records the event's
\* customer and subscription ids and clears pending_plan_change and
\* target_plan_id, on the profile named by metadata.userId.
C19_CheckoutCompleted ==
    CompletedWithKnownPrice =>
        /\ profile.id = request.event.userId
        /\ profile.plan_id \in Carrying(request.answers.session_price)
        /\ profile.active
        /\ profile.stripe_customer_id = request.event.customer
        /\ profile.stripe_subscription_id = request.event.subscription
        /\ ~profile.pending_plan_change
        /\ profile.target_plan_id = NULL

C19_PendingConfirmed ==
    /\ CompletedWithKnownPrice
    /\ request.answers.session_price = "price_pro_usd"
    /\ request.before.pending_plan_change
    /\ request.before.target_plan_id = "pro"
    /\ ~request.before.active
    /\ request.before.stripe_subscription_id = NULL
    /\ profile.plan_id = "pro"

\* a customer.subscription.created event, with a price, of the profile's
\* customer
CreatedForProfile ==
    /\ Handled("customer.subscription.created")
    /\ request.event.price # NULL
    /\ request.before.stripe_customer_id = request.event.customer

\* C20: a customer.subscription.created event with a resolvable price sets
\* plan_id, sets active exactly when the status is active or trialing,
\* records subscription_status and current_period_end and clears the pending
\* fields; with an unresolvable price it logs one critical alert and changes
\* no profile field.
C20_SubscriptionCreated ==
    CreatedForProfile =>
        IF Carrying(request.event.price) = {}
        THEN /\ profile = request.before
             /\ Len(alerts) = 1
             /\ alerts[1].severity = "critical"
        ELSE /\ profile.plan_id \in Carrying(request.event.price)
             /\ profile.active = (request.event.status \in {"active", "trialing"})
             /\ profile.subscription_status = request.event.status
             /\ profile.current_period_end = request.answers.period_end
             /\ ~profile.pending_plan_change
             /\ profile.target_plan_id = NULL

C20_TrialCreated ==
    /\ CreatedForProfile
    /\ request.event.status = "trialing"
    /\ request.event.price = "price_pro_usd"
    /\ request.answers.period_end # NoTime
    /\ request.before.pending_plan_change
    /\ ~request.before.active
    /\ profile.active
    /\ profile.plan_id = "pro"

\* a checkout request of a subscriber who holds a subscription and is active
CheckoutBySubscriber ==
    /\ request.kind = "checkout"
    /\ request.before.stripe_subscription_id # NULL
    /\ request.before.active

\* C21: for a subscriber holding an active subscription, neither a checkout
\* request nor the customer.subscription.updated event that confirms it
\* changes stripe_subscription_id, and the checkout request never creates a
\* hosted checkout session.
C21_SubscriptionPreserved ==
    /\ CheckoutBySubscriber =>
          /\ profile.stripe_subscription_id = request.before.stripe_subscription_id
          /\ \A k \in 1..Len(stripe_calls) : stripe_calls[k] # "checkout.sessions.create"
    /\ (Handled("customer.subscription.updated") /\ FoundBySubscription) =>
          profile.stripe_subscription_id = request.before.stripe_subscription_id

\* a second plan change in place, after the first one was confirmed
C21_SecondChangeInPlace ==
    /\ CheckoutBySubscriber
    /\ response = 303
    /\ request.before.last_checkout_at # NoTime
    /\ request.before.plan_id = "pro"
    /\ request.form.plan = "basic"
    /\ stripe_calls = <<"subscriptions.retrieve", "subscriptions.update">>
    /\ profile.stripe_subscription_id = "sub_1"
    /\ profile.target_plan_id = "basic"

\* the delivery was not taken for a duplicate and the case of its event
\* type has run
Processed(r) == inflight[r].pc \in {"update", "done"} /\ ~inflight[r].duplicate

\* C22: of two deliveries of the same event_id handled at the same time, at
\* most one is processed; the other is answered as a duplicate without
\* touching the profile.
C22_OneDeliveryProcessed ==
    \A a, b \in Requests :
        (a # b /\ Processed(a) /\ Processed(b)) => inflight[a].id # inflight[b].id

\* the profile write of a webhook transition returned success = false
ProfileWriteFailed ==
    /\ request.kind = "webhook"
    /\ ~request.duplicate
    /\ ~request.faults.db_ok
    /\ \/ UpdatedToPlan
       \/ RenewalForProfile
       \/ InvoiceFailedForProfile /\ request.event.next_payment_attempt = NoTime
       \/ Handled("customer.subscription.deleted") /\ FoundBySubscription

\* C23: when the profile write of a webhook transition fails, an alert is
\* recorded for it before the handler responds.
C23_WriteFailureIsAlerted ==
    ProfileWriteFailed => Len(alerts) >= 1

\* the handled event names no subscriber, or the lookup of the profile by its
\* customer or subscription reference finds no row
NoProfileResolved ==
    /\ request.kind = "webhook"
    /\ ~request.duplicate
    /\ CASE request.event.type = "checkout.session.completed" ->
                request.event.userId = NULL
         [] request.event.type = "customer.subscription.created" ->
                /\ request.event.price # NULL
                /\ request.before.stripe_customer_id # request.event.customer
         [] request.event.type = "customer.subscription.updated" ->
                request.event.price # NULL /\ ~FoundBySubscription
         [] request.event.type = "customer.subscription.deleted" ->
                ~FoundBySubscription
         [] request.event.type \in {"invoice.payment_succeeded",
                                    "invoice.payment_failed"} ->
                request.event.subscription # NULL /\ ~FoundBySubscription
         [] OTHER -> FALSE

\* C24: for every handled event type, when no profile can be resolved for
\* the event, an alert of severity warning is recorded.
C24_UnresolvedProfileWarns ==
    NoProfileResolved => \E k \in 1..Len(alerts) : alerts[k].severity = "warning"

\* C25: a checkout request is answered with the 303 redirect only when
\* pending_plan_change = true, target_plan_id and last_checkout_at were
\* written to the profile; when that write fails the answer is 500.
C25_RedirectMeansPending ==
    (request.kind = "checkout" /\ response = 303) =>
        /\ profile.pending_plan_change
        /\ profile.target_plan_id = PlanByName(request.form.plan)
        /\ profile.last_checkout_at = now

\* the delivery ran the customer.subscription.updated case for the profile
\* it looked up, with a price one plan carries
ClassifiedUpdate(r) ==
    /\ Processed(r)
    /\ inflight[r].event.type = "customer.subscription.updated"
    /\ inflight[r].userId # NULL
    /\ Cardinality(Carrying(inflight[r].event.price)) = 1

\* the two deliveries carry different events and both have responded
BothDelivered ==
    /\ inflight["r1"].pc = "done"
    /\ inflight["r2"].pc = "done"
    /\ inflight["r1"].id # inflight["r2"].id

\* the profile after the write of delivery a and then the write of delivery b
LastWriteWins(a, b) ==
    /\ \A f \in DOMAIN inflight[b].updates : profile[f] = inflight[b].updates[f]
    /\ \A f \in DOMAIN inflight[a].updates \ DOMAIN inflight[b].updates :
          profile[f] = inflight[a].updates[f]

HandledAlone(p, r) ==
    LET o == Switch(p, inflight[r].event, inflight[r].answers, now)
    IN  IF o.userId = NULL THEN p ELSE ApplyUpdate(p, o.userId, o.updates)

ChangedAndConfirmed ==
    /\ SubscriptionChanged("r1")
    /\ inflight["r1"].pc = "done"
    /\ Processed("r2")
    /\ inflight["r2"].pc = "done"
    /\ inflight["r2"].userId # NULL

\* C27: however the steps of an accepted plan change in place interleave
\* with the handling of its confirming customer.subscription.updated event,
\* once both handlers have finished the profile has
\* pending_plan_change = false and target_plan_id = null.
C27_ConfirmationClearsPending ==
    ChangedAndConfirmed =>
        /\ ~profile.pending_plan_change
        /\ profile.target_plan_id = NULL

\* a customer.subscription.updated event of the profile's subscription whose
\* price no plan carries
UpdatedToUnknownPrice ==
    /\ Handled("customer.subscription.updated")
    /\ FoundBySubscription
    /\ request.event.price # NULL
    /\ Carrying(request.event.price) = {}

\* C28: a customer.subscription.updated event whose price resolves to no
\* plan changes only subscription_status and current_period_end; plan_id,
\* active, cancel_at_period_end, plan_used and the pending fields stay as
\* they were.
C28_UnresolvedUpdateFrame ==
    UpdatedToUnknownPrice =>
        profile = [request.before EXCEPT
                     !.subscription_status = request.event.status,
                     !.current_period_end = request.answers.period_end]

\* C29: the grace-period branch of customer.subscription.deleted leaves
\* active, plan_id, plan_used and the pending fields as they were before
\* the event; it only sets cancel_at_period_end = true and records
\* subscription_status and current_period_end.
C29_GraceDeletionFrame ==
    DeletedInPaidPeriod =>
        profile = [request.before EXCEPT
                     !.cancel_at_period_end = TRUE,
                     !.subscription_status = "canceled",
                     !.current_period_end = request.event.current_period_end]

\* C30: an event that resolves to no profile (no subscriber id in the
\* metadata, or no row matching the subscription or customer reference)
\* modifies no profile row and is answered 200.
C30_UnresolvedIsNoOp ==
    NoProfileResolved =>
        /\ profile = request.before
        /\ response = 200

\* the deletion of a subscription no profile holds
C30_DeletionOfUnknownSubscription ==
    /\ NoProfileResolved
    /\ request.event.type = "customer.subscription.deleted"
    /\ request.event.subscription = "sub_1"
    /\ request.before.stripe_subscription_id = NULL
    /\ profile = NewProfile
    /\ response = 200

\* a checkout.session.completed event without a subscriber id in its
\* metadata, whose subscription and customer are the profile's and whose
\* line item has a price one plan carries
CompletedMatchingByReference ==
    /\ Handled("checkout.session.completed")
    /\ request.event.userId = NULL
    /\ request.event.subscription # NULL
    /\ request.before.stripe_subscription_id = request.event.subscription
    /\ request.before.stripe_customer_id = request.event.customer

\* C31: the profile an event is applied to is the first match by subscriber
\* id in the metadata, then by stripe_subscription_id, then by
\* stripe_customer_id: an event without a subscriber id that matches the
\* profile by a later key is still applied to it, and is not reported as
\* given up as matching no profile.
C31_LaterKeyResolves ==
    CompletedMatchingByReference =>
        \A k \in 1..Len(alerts) : alerts[k] # Alert("subscription_mismatch", "warning")

\* C32: after a checkout.session.completed event whose price matches no
\* plan the profile has no plan: plan_id is null, active is false and both
\* Stripe references are recorded, whatever plan_id it held before.
C32_UnknownPriceLeavesNoPlan ==
    CompletedWithUnknownPrice =>
        /\ profile.plan_id = NULL
        /\ ~profile.active
        /\ profile.stripe_customer_id # NULL
        /\ profile.stripe_subscription_id # NULL

\* C35: in every reachable state a profile with active = true has a
\* plan_id.
C35_AccessImpliesPlan ==
    profile.active => profile.plan_id # NULL

\* the profile as an immediate deletion of its subscription leaves it
DeletedBefore ==
    /\ request.before.subscription_status = "canceled"
    /\ request.before.plan_id = NULL
    /\ ~request.before.active
    /\ ~request.before.cancel_at_period_end

\* C36: once an immediate deletion has been applied, a later
\* customer.subscription.updated or invoice.payment_succeeded event of the
\* deleted subscription does not set active back to true.
C36_DeletedStaysInactive ==
    ( /\ \/ Handled("customer.subscription.updated")
         \/ Handled("invoice.payment_succeeded")
      /\ FoundBySubscription
      /\ DeletedBefore )
    => ~profile.active

\* the profile p after an event is handled on it
AfterEvent(p, e, x) ==
    LET o == Switch(p, e, x, now)
    IN  IF o.userId = NULL THEN p ELSE ApplyUpdate(p, o.userId, o.updates)

\* the checkout.session.completed event c, with Stripe's answers xc, is the
\* one of the subscription the handled customer.subscription.created event
\* reports, and was handled first, on the profile of a new subscriber
CompletedThenCreated(c, xc) ==
    /\ Handled("customer.subscription.created")
    /\ c.userId = UserId
    /\ c.subscription = request.event.subscription
    /\ c.customer = request.event.customer
    /\ xc.session_price \notin {NULL, "throw"}
    /\ Cardinality(Carrying(xc.session_price)) = 1
    /\ Carrying(xc.session_price) = Carrying(request.event.price)
    /\ request.before = AfterEvent(NewProfile, c, xc)

\* C37: for a new subscriber, handling the checkout.session.completed event
\* and the customer.subscription.created event of one subscription leaves
\* the same profile whichever of the two is handled first.
C37_OrderIndependent ==
    \A c \in CheckoutCompletedEvents :
      \A xc \in AnswersFor(c) :
        CompletedThenCreated(c, xc) =>
            profile = AfterEvent(AfterEvent(NewProfile, request.event, request.answers),
                                 c, xc)

\* a delivery that went through the switch while the insert into
\* webhook_alerts was failing, the profile write working
AlertSinkFailed ==
    /\ request.kind = "webhook"
    /\ ~request.duplicate
    /\ ~request.faults.alert_ok
    /\ request.faults.db_ok

\* C33: a failure inside logAlert never changes the outcome of the
\* processing: the profile update of the event is applied as without the
\* failure, and the response is 200 unless the Stripe call of the event
\* threw.
C33_AlertFailureIsHarmless ==
    AlertSinkFailed =>
        /\ profile = AfterEvent(request.before, request.event, request.answers)
        /\ response = IF request.answers.session_price = "throw" THEN 400 ELSE 200

\* the critical alert of an unknown price is lost, the update that follows
\* it is applied
C33_UpdateAfterLostAlert ==
    /\ AlertSinkFailed
    /\ CompletedWithUnknownPrice
    /\ request.before.active
    /\ alerts = <<>>
    /\ ~profile.active
    /\ response = 200

\* C38: every event whose effect is applied to a profile has a row in the
\* ledger: when the insert into webhook_events fails, the switch is not
\* executed and the delivery is not answered 200.
C38_AppliedOnlyIfRecorded ==
    (request.kind = "webhook" /\ ~request.duplicate /\ webhook_events[request.id] = 0)
        => /\ profile = request.before
           /\ response # 200

\* C34: every accepted checkout's pending state is eventually cleared: a
\* state with pending_plan_change = true is followed by one with
\* pending_plan_change = false, also when the hosted session is never paid.
C34_PendingEventuallyCleared ==
    profile.pending_plan_change ~> ~profile.pending_plan_change

\* the period a cancelled subscription was paid for has run out
GraceExpired ==
    /\ profile.cancel_at_period_end
    /\ profile.active
    /\ profile.current_period_end # NoTime
    /\ profile.current_period_end <= now

\* C39: a profile in grace period does not keep access for ever: once the
\* clock has passed current_period_end it reaches active = false, without
\* the subscriber starting a new checkout.
C39_GraceEventuallyEnds ==
    GraceExpired ~> (~profile.active \/ request.kind = "checkout")

====
